---- MODULE Spec2Model ----
(***************************************************************************)
(* Model of two pieces of tinacms:                                         *)
(*   - GitMediaStore (packages/gatsby-tinacms-git/media-git.ts): list,     *)
(*     delete, find and the sequential upload loop of persist;             *)
(*   - the useProsemirror hook (packages/@tinacms/fields/src/Wysiwyg/      *)
(*     useProsemirror.tsx) with createEditorState (Wysiwyg/state).         *)
(* The two pieces share no state; SpecMedia and SpecEditor run them apart. *)
(***************************************************************************)
EXTENDS Integers, Sequences, FiniteSets, TLC

(***************************************************************************)
(* Bounds of the model                                                     *)
(***************************************************************************)
\* longest upload list handed to persist
MaxFiles == 2
\* number of EditorView objects one component instance may create
MaxViews == 2

(***************************************************************************)
(* GitMediaStore                                                           *)
(***************************************************************************)
\* persist invocations that may be in progress at the same time
Invocations == {1, 2}
\* MediaUploadOptions: { file, directory }
MediaUploadOptions ==
    {[file |-> "f1", directory |-> "d1"], [file |-> "f2", directory |-> "d2"]}
\* the `filename` field of the response body
Undefined == "undefined"
Filenames == {"x.jpg", "y.jpg"}
WriteErrors == {"netErr1", "netErr2"}
JsonError == "jsonErr"

UploadLists == UNION {[1..n -> MediaUploadOptions] : n \in 0..MaxFiles}

VARIABLES
    pc,          \* pc[i]: where invocation i of persist stands
    files,       \* files[i]: the argument of invocation i
    idx,         \* idx[i]: 1-based position of the for-of loop
    uploaded,    \* uploaded[i]: the local array `uploaded`
    calls,       \* calls[i]: arguments of the writeMediaToDisk calls issued by i
    inflight,    \* inflight[i]: positions of i's write calls not yet settled
    response,    \* response[i]: filename in the body of the Response just received
    parsed,      \* parsed[i]: filenames of the bodies parsed so far, in order
    result,      \* result[i]: what the promise of invocation i settled with
    failure,     \* failure[i]: the write call of i that was rejected, if any
    stub         \* outcome of the last list / delete / find call

mediaVars ==
    <<pc, files, idx, uploaded, calls, inflight, response, parsed, result, failure, stub>>

\* DOM nodes the ref callback can be handed
Els == {"e1", "e2"}
\* values of the state `el` (useProsemirror.tsx:58): initially undefined
ElValues == {"undefined", "null"} \cup Els
Falsy(x) == x \in {"undefined", "null"}
\* where document.activeElement lies: inside one of Els, or elsewhere
ActiveElements == {"body"} \cup Els
\* strings input.value can hold and documents the editor can hold
Values == {"_a_", "*a*", "b"}
Docs == {"em(a)", "p(b)"}
\* editorView state: undefined, or { view } for the view with this number
NoView == 0
\* no setEditorView call waits for a render
NoCall == -1

VARIABLES
    mounted,       \* the component instance is mounted
    el,            \* state `el`
    editorView,    \* state `editorView`: NoView, or the view held in { view }
    inputValue,    \* input.value of the latest render
    views,         \* the EditorView objects created so far, in creation order
    cleanup,       \* the view whose cleanup setupEditor returned last, or NoView
    setupPending,  \* setupEditor (deps [el]) waits to be flushed
    syncPending,   \* the synchronisation effect waits to be flushed
    activeElement, \* document.activeElement
    syncCause,     \* what made the synchronisation effect pending
    lastSync,      \* how the synchronisation effect ended when it last ran
    lastDispatch   \* the last transaction dispatched and the onChange calls made

editorVars ==
    <<mounted, el, editorView, inputValue, views, cleanup, setupPending,
      syncPending, syncCause, activeElement, lastSync, lastDispatch>>

vars == <<mediaVars, editorVars>>

NoResult == [kind |-> "pending"]
NoFailure == [at |-> 0]
NoStub == [op |-> "none"]
\* arguments a caller may hand to list, delete and find (all are ignored)
StubArgs == {"x.jpg", "other.png"}

\* variant of Descriptor: the preview is not taken from the response
DescriptorSwapped(filename) ==
    [src |-> filename, previewSrc |-> "test.jpg", reference |-> filename]

\* media-git.ts:33-37, the object pushed for one file
Descriptor(filename) ==
    [src |-> filename, previewSrc |-> filename, reference |-> filename]

\* media-git.ts:26-29, the argument of the write call for one upload request
WriteRequest(f) == [directory |-> f.directory, content |-> f.file]

\* variant of IssuedAt: the writes of all remaining files are started at once
IssuedAtAll(k, n) == k..n

\* media-git.ts:25-29: positions of the write calls issued when the loop
\* reaches position k of a list of n files: the awaited call for file k
IssuedAt(k, n) == {k}

\* media-git.ts:25-40: enter the loop body at position k, or leave the loop,
\* log and return `uploaded`
Advance(i, k, up) ==
    IF k <= Len(files'[i])
    THEN LET new == IssuedAt(k, Len(files'[i]))
             reqs == [j \in 1..Cardinality(new) |-> WriteRequest(files'[i][k + j - 1])]
         IN /\ pc' = [pc EXCEPT ![i] = "awaitWrite"]
            /\ idx' = [idx EXCEPT ![i] = k]
            /\ uploaded' = [uploaded EXCEPT ![i] = up]
            /\ calls' = [calls EXCEPT ![i] = (IF k = 1 THEN <<>> ELSE @) \o reqs]
            /\ inflight' = [inflight EXCEPT ![i] = @ \cup new]
            /\ result' = [result EXCEPT ![i] = NoResult]
    ELSE /\ pc' = [pc EXCEPT ![i] = "returned"]
         /\ idx' = [idx EXCEPT ![i] = k]
         /\ uploaded' = [uploaded EXCEPT ![i] = up]
         /\ calls' = [calls EXCEPT ![i] = IF k = 1 THEN <<>> ELSE @]
         /\ inflight' = inflight
         /\ result' = [result EXCEPT ![i] = [kind |-> "value", value |-> up]]

\* media-git.ts:23-29: persist(files) runs up to its first await
persist(i, fs) ==
    /\ UNCHANGED editorVars
    /\ pc[i] = "idle"
    /\ files' = [files EXCEPT ![i] = fs]
    /\ parsed' = [parsed EXCEPT ![i] = <<>>]
    /\ Advance(i, 1, <<>>)
    /\ UNCHANGED <<response, failure, stub>>

\* media-git.ts:26,31: the write promise fulfils with a Response; json() starts
WriteFulfilled(i, filename) ==
    /\ UNCHANGED editorVars
    /\ pc[i] = "awaitWrite"
    /\ pc' = [pc EXCEPT ![i] = "awaitJson"]
    /\ inflight' = [inflight EXCEPT ![i] = @ \ {idx[i]}]
    /\ response' = [response EXCEPT ![i] = filename]
    /\ UNCHANGED <<files, idx, uploaded, calls, parsed, result, failure, stub>>

\* variant of Rejected: the error is swallowed and the loop goes on
RejectedSwallowed(i, err) ==
    /\ files' = files
    /\ parsed' = parsed
    /\ Advance(i, idx[i] + 1, uploaded[i])

\* what a rejected await does to the invocation: the async function rejects
\* with the error (media-git.ts:26 and 31 have no try/catch around them)
Rejected(i, err) ==
    /\ pc' = [pc EXCEPT ![i] = "rejected"]
    /\ result' = [result EXCEPT ![i] = [kind |-> "error", error |-> err]]
    /\ inflight' = [inflight EXCEPT ![i] = @ \ {idx[i]}]
    /\ UNCHANGED <<files, idx, uploaded, calls, parsed>>

\* media-git.ts:26: the write promise rejects
WriteRejected(i, err) ==
    /\ UNCHANGED editorVars
    /\ pc[i] = "awaitWrite"
    /\ failure' = [failure EXCEPT ![i] = [at |-> idx[i], error |-> err]]
    /\ Rejected(i, err)
    /\ UNCHANGED <<response, stub>>

\* variant of Local: one array shared by the invocations of the store
LocalShared(i) == uploaded[3 - i] \o uploaded[i]

\* media-git.ts:24: `uploaded` is a local of the invocation
Local(i) == uploaded[i]

\* media-git.ts:31-38: the body parses; push the descriptor; next iteration
JsonFulfilled(i) ==
    /\ UNCHANGED editorVars
    /\ pc[i] = "awaitJson"
    /\ files' = files
    /\ parsed' = [parsed EXCEPT ![i] = Append(@, response[i])]
    /\ Advance(i, idx[i] + 1, Append(Local(i), Descriptor(response[i])))
    /\ UNCHANGED <<response, failure, stub>>

\* media-git.ts:31: response.json() rejects
JsonRejected(i) ==
    /\ UNCHANGED editorVars
    /\ pc[i] = "awaitJson"
    /\ Rejected(i, JsonError)
    /\ UNCHANGED <<response, failure, stub>>

\* the caller takes the settled promise and the invocation's locals are
\* dropped; the slot is free for another call
Settle(i) ==
    /\ UNCHANGED editorVars
    /\ pc[i] \in {"returned", "rejected"}
    /\ pc' = [pc EXCEPT ![i] = "idle"]
    /\ files' = [files EXCEPT ![i] = <<>>]
    /\ idx' = [idx EXCEPT ![i] = 1]
    /\ uploaded' = [uploaded EXCEPT ![i] = <<>>]
    /\ calls' = [calls EXCEPT ![i] = <<>>]
    /\ inflight' = [inflight EXCEPT ![i] = {}]
    /\ response' = [response EXCEPT ![i] = Undefined]
    /\ parsed' = [parsed EXCEPT ![i] = <<>>]
    /\ result' = [result EXCEPT ![i] = NoResult]
    /\ failure' = [failure EXCEPT ![i] = NoFailure]
    /\ stub' = stub

\* the variables of the persist invocations and of the client
persistVars ==
    <<pc, files, idx, uploaded, calls, inflight, response, parsed, result, failure>>

\* whether some invocation has pushed a descriptor (recorded with a stub call)
SomeUploaded == \E i \in Invocations : Len(uploaded[i]) > 0

\* media-git.ts:9-12
listResult(args) == <<>>
list(args) ==
    /\ UNCHANGED editorVars
    /\ stub' = [op |-> "list", kind |-> "value", value |-> listResult(args),
                after |-> SomeUploaded]
    /\ UNCHANGED persistVars

\* media-git.ts:13-15: the body is empty; the promise fulfils with undefined
delete(args) ==
    /\ UNCHANGED editorVars
    /\ stub' = [op |-> "delete", kind |-> "value", value |-> Undefined,
                after |-> SomeUploaded]
    /\ UNCHANGED persistVars

\* variant of findResult: the descriptor of the file asked for
findResultEcho(args) ==
    [src |-> args, previewSrc |-> args, reference |-> args]

\* media-git.ts:16-22
findResult(args) ==
    [src |-> "test.jpg", previewSrc |-> "test.jpg", reference |-> "test.jpg"]
find(args) ==
    /\ UNCHANGED editorVars
    /\ stub' = [op |-> "find", kind |-> "value", value |-> findResult(args),
                after |-> SomeUploaded]
    /\ UNCHANGED persistVars

InitMedia ==
    /\ pc = [i \in Invocations |-> "idle"]
    /\ files = [i \in Invocations |-> <<>>]
    /\ idx = [i \in Invocations |-> 1]
    /\ uploaded = [i \in Invocations |-> <<>>]
    /\ calls = [i \in Invocations |-> <<>>]
    /\ inflight = [i \in Invocations |-> {}]
    /\ response = [i \in Invocations |-> Undefined]
    /\ parsed = [i \in Invocations |-> <<>>]
    /\ result = [i \in Invocations |-> NoResult]
    /\ failure = [i \in Invocations |-> NoFailure]
    /\ stub = NoStub

(***************************************************************************)
(* useProsemirror                                                          *)
(*                                                                         *)
(* React runs the hook's body on every render and its effects after the    *)
(* render, each with the values of the render that defined it.  An effect  *)
(* whose dependencies changed is pending until React flushes it: from a    *)
(* scheduler callback, and in any case before the next render starts.  A   *)
(* state setter called outside a batch renders at once, so it flushes the  *)
(* pending effects inside the call; inside a batch the render waits for    *)
(* the end of the handler.  Every render flushes what is pending first, so *)
(* a pending synchronisation effect has one cause (syncCause): the render  *)
(* asked for by setupEditor's, or by dispatchTransaction's, setEditorView  *)
(* call, or the render with another input.value.                           *)
(***************************************************************************)
\* Translator.nodeFromString: two spellings of one document parse alike
nodeFromString(value) ==
    CASE value = "_a_" -> "em(a)"
      [] value = "*a*" -> "em(a)"
      [] value = "b" -> "p(b)"

\* Translator.stringFromNode: the canonical spelling of a document
stringFromNode(doc) ==
    CASE doc = "em(a)" -> "*a*"
      [] doc = "p(b)" -> "b"

\* Wysiwyg/state createEditorState: a state holding the parsed value (the
\* schema and the plugin list are the same for every state)
createEditorState(value) == [doc |-> nodeFromString(value)]

\* useProsemirror.tsx:69-71
createState(value) == createEditorState(value)

\* transactions: tr.doc is the document they lead to; one that did not
\* change the document leads to the document it started from
Transactions == [doc : Docs, docChanged : BOOLEAN]

\* useProsemirror.tsx:102, view.state.apply(tr)
apply(state, tr) == [doc |-> tr.doc]

\* EditorView.updateState and EditorView.destroy on view v of vs
updateState(vs, v, state) == [vs EXCEPT ![v].state = state]
destroy(vs, v) == [vs EXCEPT ![v].destroyed = TRUE]

\* CheckableEditorView.docView (useProsemirror.tsx:29-31): null once destroyed
docView(vs, v) == ~vs[v].destroyed

\* variants of wysiwygIsActive: the focus is not looked at
wysiwygIsActiveNever(e, active) == FALSE
wysiwygIsActiveAlways(e, active) == TRUE

\* useProsemirror.tsx:137, el.contains(document.activeElement)
wysiwygIsActive(e, active) == active = e

\* variant of SyncUpdates: el and docView are not tested
SyncUpdatesUnguarded(vs, e, ev, active) ==
    /\ ev # NoView
    /\ ~wysiwygIsActive(e, active)

\* useProsemirror.tsx:133-139: the synchronisation effect reaches updateState
SyncUpdates(vs, e, ev, active) ==
    /\ ~Falsy(e)
    /\ ev # NoView
    /\ docView(vs, ev)
    /\ ~wysiwygIsActive(e, active)

\* useProsemirror.tsx:128-142, run with the render's el, editorView and
\* input.value
SyncEffect(vs, e, ev, val, active) ==
    IF SyncUpdates(vs, e, ev, active)
    THEN updateState(vs, ev, createState(val))
    ELSE vs

\* useProsemirror.tsx:117-120: the cleanup setupEditor returned; `editorView`
\* is the one of the render that ran setupEditor, and only tested for being
\* set
Cleanup(st) ==
    IF st.cleanup = NoView
    THEN st
    ELSE LET v == st.cleanup
         IN [st EXCEPT !.queued = NoView,
                       !.views = IF @[v].closureEditorView
                                 THEN destroy(@, v) ELSE @,
                       !.cleanup = NoView]

\* useProsemirror.tsx:79-113: create the view on el; ev is the render's
\* `editorView`, which the returned cleanup will test
SetupEditor(st, e, ev, val) ==
    IF Falsy(e)
    THEN st
    ELSE LET v == Len(st.views) + 1
         IN [st EXCEPT !.views = Append(@, [state |-> createState(val),
                                            destroyed |-> FALSE,
                                            closureEditorView |-> ev # NoView]),
                       !.queued = v,
                       !.cleanup = v]

\* the hook's state as a record, and back
Cur ==
    [views |-> views, editorView |-> editorView, cleanup |-> cleanup,
     setupPending |-> setupPending, syncPending |-> syncPending,
     syncCause |-> syncCause, lastSync |-> lastSync, queued |-> NoCall]

Store(st) ==
    /\ views' = st.views
    /\ editorView' = st.editorView
    /\ cleanup' = st.cleanup
    /\ setupPending' = st.setupPending
    /\ syncPending' = st.syncPending
    /\ syncCause' = st.syncCause
    /\ lastSync' = st.lastSync

\* One flush of the pending effects of the latest render
\* (useProsemirror.tsx:78-142): the cleanup of setupEditor, setupEditor, the
\* synchronisation effect; then the render their setEditorView calls ask
\* for, after which the synchronisation effect is pending again.
Flush(st) ==
    LET ev == st.editorView
        s1 == IF st.setupPending
              THEN SetupEditor(Cleanup(st), el, ev, inputValue)
              ELSE st
        upd == SyncUpdates(s1.views, el, ev, activeElement)
        focused == wysiwygIsActive(el, activeElement)
        skipped == /\ ~Falsy(el) /\ ev # NoView /\ docView(s1.views, ev)
                   /\ focused /\ ~upd
        s2 == IF st.syncPending
              THEN [s1 EXCEPT
                      !.views = SyncEffect(@, el, ev, inputValue, activeElement),
                      !.lastSync = IF upd THEN "updated"
                                   ELSE IF skipped THEN "focused"
                                   ELSE "returned"]
              ELSE s1
        rerender == s2.queued # NoCall /\ ~(s2.queued = NoView /\ ev = NoView)
    IN [s2 EXCEPT !.editorView = IF s2.queued = NoCall THEN @ ELSE s2.queued,
                  !.setupPending = FALSE,
                  !.syncPending = rerender,
                  !.syncCause = IF rerender THEN "setupEditor" ELSE "none",
                  !.queued = NoCall]

\* all pending effects, those of the render a flush asks for included
FlushAll(st) == Flush(Flush(st))

\* the scheduler flushes the pending effects
FlushPassiveEffects ==
    /\ UNCHANGED mediaVars
    /\ mounted
    /\ setupPending \/ syncPending
    /\ Store(Flush(Cur))
    /\ UNCHANGED <<mounted, el, inputValue, activeElement, lastDispatch>>

\* useProsemirror.tsx:60-64: the ref callback; its `el` is the one of the
\* first render (deps []), so the test always passes and setEl is called.
\* React renders when the state changes: setupEditor is pending.
elRef(nextEl) ==
    /\ UNCHANGED mediaVars
    /\ mounted
    /\ nextEl # "undefined"
    /\ nextEl # el
    /\ LET st == FlushAll(Cur)
       IN /\ ~Falsy(nextEl) => Len(st.views) < MaxViews
          /\ Store([st EXCEPT !.setupPending = TRUE])
    /\ el' = nextEl
    /\ UNCHANGED <<mounted, inputValue, activeElement, lastDispatch>>

\* the parent renders the component with another input.value
\* (useProsemirror.tsx:142: the synchronisation effect is pending)
inputChange(value) ==
    /\ UNCHANGED mediaVars
    /\ mounted
    /\ value # inputValue
    /\ Store([FlushAll(Cur) EXCEPT !.syncPending = TRUE, !.syncCause = "input.value"])
    /\ inputValue' = value
    /\ UNCHANGED <<mounted, el, activeElement, lastDispatch>>

\* the focus moves
Focus(a) ==
    /\ UNCHANGED mediaVars
    /\ mounted
    /\ a # activeElement
    /\ activeElement' = a
    /\ UNCHANGED <<mounted, el, editorView, inputValue, views, cleanup, setupPending,
                   syncPending, syncCause, lastSync, lastDispatch>>

\* variant of onChangeCalls: tr.docChanged is not tested
onChangeCallsAlways(tr, viewDoc) ==
    <<[value |-> stringFromNode(tr.doc), viewDoc |-> viewDoc]>>

\* useProsemirror.tsx:107-109: the onChange calls of one transaction, each
\* with the document the view holds when the call is made
onChangeCalls(tr, viewDoc) ==
    IF tr.docChanged
    THEN <<[value |-> stringFromNode(tr.doc), viewDoc |-> viewDoc]>>
    ELSE <<>>

\* useProsemirror.tsx:101-110 on view v.  setEditorView({ view }) renders at
\* once when called outside a batch: React first flushes the effects that
\* are pending; inside a batch (batched) that happens after the handler.
\* On an unmounted component setEditorView does nothing.
dispatchTransaction(v, tr, batched) ==
    /\ UNCHANGED mediaVars
    /\ v \in 1..Len(views)
    /\ ~views[v].destroyed
    /\ ~tr.docChanged => tr.doc = views[v].state.doc
    /\ LET nextState == apply(views[v].state, tr)
           s1 == [Cur EXCEPT !.views = updateState(@, v, nextState)]
           s2 == IF mounted THEN FlushAll(s1) ELSE s1
           s3 == IF mounted
                 THEN [s2 EXCEPT !.editorView = v, !.syncPending = TRUE,
                                 !.syncCause = "dispatchTransaction"]
                 ELSE s2
           atCall == IF batched THEN s1 ELSE s2
       IN /\ Store(s3)
          /\ lastDispatch' = [n |-> 1 - lastDispatch.n,
                              doc |-> tr.doc, docChanged |-> tr.docChanged,
                              calls |-> onChangeCalls(tr, atCall.views[v].state.doc)]
    /\ UNCHANGED <<mounted, el, inputValue, activeElement>>

\* the component unmounts: React flushes what is pending and runs the
\* cleanup of setupEditor (useProsemirror.tsx:117-120); its setEditorView
\* call does nothing any more
unmount ==
    /\ UNCHANGED mediaVars
    /\ mounted
    /\ mounted' = FALSE
    /\ LET st == Cleanup(FlushAll(Cur))
       IN Store([st EXCEPT !.setupPending = FALSE, !.syncPending = FALSE,
                           !.syncCause = "none"])
    /\ UNCHANGED <<el, inputValue, activeElement, lastDispatch>>

NoSync == "none"
\* lastDispatch.n flips with every transaction dispatched
NoDispatch == [n |-> 0, calls |-> <<>>]

\* after the first render: el is undefined, both effects returned at once
InitEditor ==
    /\ mounted = TRUE
    /\ el = "undefined"
    /\ editorView = NoView
    /\ inputValue \in Values
    /\ views = <<>>
    /\ cleanup = NoView
    /\ setupPending = FALSE
    /\ syncPending = FALSE
    /\ syncCause = "none"
    /\ activeElement = "body"
    /\ lastSync = NoSync
    /\ lastDispatch = NoDispatch

NextEditor ==
    \/ FlushPassiveEffects
    \/ \E e \in ElValues : elRef(e)
    \/ \E value \in Values : inputChange(value)
    \/ \E a \in ActiveElements : Focus(a)
    \/ \E v \in 1..MaxViews, tr \in Transactions, batched \in BOOLEAN :
          dispatchTransaction(v, tr, batched)
    \/ unmount

Init == InitMedia /\ InitEditor

SpecEditor == Init /\ [][NextEditor]_vars

\* the steps of the persist invocations in I
NextPersist(I) ==
    \/ \E i \in I, fs \in UploadLists : persist(i, fs)
    \/ \E i \in I, fn \in Filenames : WriteFulfilled(i, fn)
    \/ \E i \in I, e \in WriteErrors : WriteRejected(i, e)
    \/ \E i \in I : JsonFulfilled(i)
    \/ \E i \in I : JsonRejected(i)
    \/ \E i \in I : Settle(i)

\* persist invocations, overlapping in any way
NextMedia == NextPersist(Invocations)

SpecMedia == Init /\ [][NextMedia]_vars

\* list, delete and find called at any moment of the life of a persist
\* invocation
NextStubs ==
    \/ NextPersist({1})
    \/ \E a \in StubArgs : list(a)
    \/ \E a \in StubArgs : delete(a)
    \/ \E a \in StubArgs : find(a)

SpecStubs == Init /\ [][NextStubs]_vars

(***************************************************************************)
(* Claims about GitMediaStore                                              *)
(***************************************************************************)
\* C1: when persist returns (every write and every body succeeded), it
\* returns exactly one descriptor per file, in input order, and the k-th
\* descriptor has src, previewSrc and reference all equal to the filename of
\* the response to the k-th write; an empty list returns an empty sequence.
C1_PersistReturnsDescriptorsInOrder ==
    \A i \in Invocations :
        pc[i] = "returned" =>
            /\ result[i].kind = "value"
            /\ Len(result[i].value) = Len(files[i])
            /\ Len(parsed[i]) = Len(files[i])
            /\ \A k \in 1..Len(files[i]) :
                   /\ result[i].value[k].src = parsed[i][k]
                   /\ result[i].value[k].previewSrc = parsed[i][k]
                   /\ result[i].value[k].reference = parsed[i][k]

\* C1 witness: an invocation returned two descriptors for two files whose
\* responses named different files.
C1_Witness ==
    \E i \in Invocations :
        /\ pc[i] = "returned"
        /\ Len(files[i]) = 2
        /\ parsed[i][1] # parsed[i][2]
        /\ Len(result[i].value) = 2

\* C2: once the write call for the k-th file has been rejected, the
\* invocation is rejected with that same error, it holds no value (no
\* descriptor reaches the caller), exactly k write calls were issued (none
\* for a later file, none repeated), and none is outstanding.
C2_FailedWriteAborts ==
    \A i \in Invocations :
        failure[i].at # 0 =>
            /\ pc[i] = "rejected"
            /\ result[i] = [kind |-> "error", error |-> failure[i].error]
            /\ Len(calls[i]) = failure[i].at
            /\ inflight[i] = {}

\* C2 witness: the write for the second of two files failed after the first
\* had been uploaded and its descriptor pushed.
C2_Witness ==
    \E i \in Invocations :
        /\ failure[i].at = 2
        /\ Len(files[i]) = 2
        /\ Len(uploaded[i]) = 1
        /\ pc[i] = "rejected"

\* C3: within one invocation the write calls are issued one per file in
\* input order, at most one is outstanding, the call for file k+1 is issued
\* only when the bodies of the first k responses have been parsed, and a
\* returned invocation has issued exactly one call per file.
C3_UploadsSequential ==
    \A i \in Invocations :
        /\ Cardinality(inflight[i]) <= 1
        /\ Len(calls[i]) <= Len(files[i])
        /\ Len(calls[i]) <= Len(parsed[i]) + 1
        /\ inflight[i] # {} => inflight[i] = {Len(calls[i])} /\ Len(parsed[i]) = Len(calls[i]) - 1
        /\ \A k \in 1..Len(calls[i]) :
               calls[i][k] = [directory |-> files[i][k].directory, content |-> files[i][k].file]
        /\ pc[i] = "returned" => Len(calls[i]) = Len(files[i])

\* C3 witness: the second write of an invocation is outstanding, the body of
\* the first response having been parsed.
C3_Witness ==
    \E i \in Invocations :
        /\ inflight[i] = {2}
        /\ Len(parsed[i]) = 1
        /\ Len(calls[i]) = 2

\* C8: every step that is a call of list, delete or find leaves the state of
\* the persist invocations and the calls issued to the client unchanged and
\* yields: the empty sequence for list, a fulfilled promise (of undefined)
\* for delete, the placeholder descriptor with src = previewSrc = reference
\* = 'test.jpg' for find.
C8_StubsFixedAndInert ==
    [][stub' # stub =>
          /\ persistVars' = persistVars
          /\ stub'.kind = "value"
          /\ stub'.op = "list" => stub'.value = <<>>
          /\ stub'.op = "delete" => stub'.value = Undefined
          /\ stub'.op = "find" =>
                 stub'.value = [src |-> "test.jpg", previewSrc |-> "test.jpg",
                                reference |-> "test.jpg"]
          /\ stub'.op \in {"list", "delete", "find"}]_vars

\* C8 witness: find was called after a persist invocation had uploaded a
\* file, and returned the placeholder.
C8_Witness ==
    /\ stub.op = "find"
    /\ stub.after
    /\ stub.value.src = "test.jpg"

(***************************************************************************)
(* Claims about useProsemirror                                             *)
(***************************************************************************)
\* C4: a transaction that changed the document makes dispatchTransaction
\* call input.onChange exactly once, with the serialization of tr.doc; a
\* transaction that did not change the document makes it call input.onChange
\* not at all.
C4_OnChangeOncePerDocChange ==
    lastDispatch # NoDispatch =>
        IF lastDispatch.docChanged
        THEN /\ Len(lastDispatch.calls) = 1
             /\ lastDispatch.calls[1].value = stringFromNode(lastDispatch.doc)
        ELSE lastDispatch.calls = <<>>

\* C4 witness: a transaction changed the document to one whose serialization
\* differs from input.value, and onChange was called with it.
C4_Witness ==
    /\ lastDispatch # NoDispatch
    /\ lastDispatch.docChanged
    /\ Len(lastDispatch.calls) = 1
    /\ lastDispatch.calls[1].value # inputValue

\* C5: in a step that starts with the focus inside the mount point and that
\* is not a transaction, no view's state changes: a change of input.value
\* and the run of the synchronisation effect it causes leave the editor
\* state alone.
C5_FocusedValueChangeIgnored ==
    [][(/\ ~Falsy(el)
        /\ activeElement = el
        /\ lastDispatch'.n = lastDispatch.n)
       => \A v \in 1..Len(views) : views'[v].state = views[v].state]_vars

\* C5 witness: the synchronisation effect ran for a changed input.value while
\* the editor was focused and skipped updateState: the live view still holds a
\* document other than the one input.value parses to.
C5_Witness ==
    /\ mounted
    /\ lastSync = "focused"
    /\ activeElement = el
    /\ ~syncPending /\ ~setupPending
    /\ editorView # NoView
    /\ ~views[editorView].destroyed
    /\ views[editorView].state.doc # nodeFromString(inputValue)

\* C6: a change of input.value makes the synchronisation effect pending, and
\* when the pending effect is flushed with the focus outside the mount point,
\* with a mount point and with a view in editorView whose docView exists, the
\* state of that view is replaced by the state built from input.value.
C6_UnfocusedValueChangeResyncs ==
    [][/\ (mounted /\ mounted' /\ inputValue' # inputValue) => syncPending'
       /\ (/\ mounted
           /\ syncPending
           /\ activeElement' = activeElement
           /\ ~Falsy(el)
           /\ activeElement # el
           /\ editorView # NoView
           /\ ~views[editorView].destroyed
           /\ ~(setupPending /\ cleanup = editorView
                 /\ views[editorView].closureEditorView))
          => views'[editorView].state = [doc |-> nodeFromString(inputValue)]]_vars

\* C6 witness: after a resynchronisation the live view, which is not focused,
\* holds the document parsed from an input.value that is not the canonical
\* spelling of any document (so the state was built from that value, not
\* reached by a transaction).
C6_Witness ==
    /\ mounted
    /\ lastSync = "updated"
    /\ ~syncPending /\ ~setupPending
    /\ ~Falsy(el) /\ activeElement # el
    /\ editorView # NoView
    /\ ~views[editorView].destroyed
    /\ lastDispatch # NoDispatch
    /\ lastDispatch.doc # nodeFromString(inputValue)
    /\ views[editorView].state.doc = nodeFromString(inputValue)

\* C7: once the component is unmounted, every view the hook created has been
\* destroyed.
C7_UnmountDestroysViews ==
    ~mounted => \A v \in 1..Len(views) : views[v].destroyed

\* C9: at most one view created by the hook is not destroyed.
C9_AtMostOneLiveView ==
    Cardinality({v \in 1..Len(views) : ~views[v].destroyed}) <= 1

\* C10: at each onChange call of dispatchTransaction the view's document is
\* the document whose serialization is passed to onChange.
C10_StateUpdatedBeforeOnChange ==
    lastDispatch # NoDispatch =>
        \A k \in 1..Len(lastDispatch.calls) :
            lastDispatch.calls[k].viewDoc = lastDispatch.doc

\* C11: while the mount point is unset and no effect is pending, no view
\* created by the hook is alive.
C11_NoViewWhileUnset ==
    (mounted /\ Falsy(el) /\ ~setupPending /\ ~syncPending)
        => \A v \in 1..Len(views) : views[v].destroyed

\* The part of C11 about creation: a step creates at most one view, only
\* with a mount point set, and the new view holds the state built from the
\* input.value of that moment; before a mount point was ever set there is no
\* view.
C11_CreatedOnlyWithMountPoint ==
    [][/\ el' = "undefined" => views' = <<>>
       /\ Len(views') # Len(views) =>
             /\ Len(views') = Len(views) + 1
             /\ ~Falsy(el)
             /\ views'[Len(views')].state = [doc |-> nodeFromString(inputValue)]]_vars

\* C12: while the synchronisation effect is pending because of
\* dispatchTransaction's setEditorView call, a step that is neither a
\* transaction nor a change of input.value changes no view's state.
C12_StateKeptAfterTransaction ==
    [][(/\ mounted
        /\ syncCause = "dispatchTransaction"
        /\ inputValue' = inputValue
        /\ lastDispatch'.n = lastDispatch.n)
       => \A v \in 1..Len(views) : views'[v].state = views[v].state]_vars

\* C13: at every moment of two invocations in progress together, the array
\* of each holds exactly the descriptors of its own responses, in the order
\* of its own files, and what an invocation returns is its own array.
C13_OverlappingPersistIsolated ==
    \A i \in Invocations :
        /\ Len(uploaded[i]) = Len(parsed[i])
        /\ \A k \in 1..Len(uploaded[i]) :
               uploaded[i][k] = [src |-> parsed[i][k], previewSrc |-> parsed[i][k],
                                 reference |-> parsed[i][k]]
        /\ pc[i] = "returned" => result[i].value = uploaded[i]

\* C13 witness: the two invocations are in progress together, the one
\* awaiting its second write, the other the body of its second response, and
\* each holds the descriptor of its own first response, which differ.
C13_Witness ==
    /\ pc[1] = "awaitWrite" /\ inflight[1] = {2}
    /\ pc[2] = "awaitJson" /\ idx[2] = 2
    /\ parsed[1] = <<"x.jpg">> /\ parsed[2] = <<"y.jpg">>
    /\ uploaded[1][1].src = "x.jpg" /\ uploaded[2][1].src = "y.jpg"

====
